---- MODULE Spec2Model ----
(***************************************************************************)
(* State-machine model of krotov/result.py: the Result container and the   *)
(* control-substitution routine _plug_in_optimized_controls.               *)
(*                                                                         *)
(* Python objects live in a heap of list objects, so that aliasing and     *)
(* mutation are visible: a list is an address into `heap`, its content a   *)
(* sequence of values, a value either an opaque atom (a qutip operator, a  *)
(* control array, a state) or a reference to another list.  Python's       *)
(* 0-based positions are kept as they are in the code; heap sequences are  *)
(* 1-based, so H[i] is heap[H][i + 1].                                     *)
(***************************************************************************)
EXTENDS Integers, Sequences, FiniteSets

VARIABLES
    heap,                \* the list objects: address -> content
    objectives,          \* Result.objectives
    guess_controls,      \* Result.guess_controls
    optimized_controls,  \* Result.optimized_controls
    controls_mapping,    \* Result.controls_mapping
    iters,               \* Result.iters
    start_local_time,    \* Result.start_local_time
    end_local_time,      \* Result.end_local_time
    args,                \* arguments of a direct call of the substitution routine
    ret                  \* what the last operation returned or raised

vars == <<heap, objectives, guess_controls, optimized_controls,
          controls_mapping, iters, start_local_time, end_local_time, args, ret>>

resultFields == <<objectives, guess_controls, optimized_controls,
                  controls_mapping, iters, start_local_time, end_local_time>>

(***************************************************************************)
(* Bounds of the model.                                                    *)
(***************************************************************************)
MaxLen == 2          \* entries of one nested structure (H or a c_op)
MaxControls == 2     \* controls in a controls list, entries in a descriptor
MaxWrites == 3       \* positions listed in one descriptor, all controls together
MaxObjectives == 2   \* objectives of a Result
MaxIters == 2        \* iteration records appended to a Result

(***************************************************************************)
(* Values.                                                                 *)
(***************************************************************************)
Atom(s) == [ref |-> FALSE, a |-> 0, s |-> s]
Ref(a) == [ref |-> TRUE, a |-> a, s |-> ""]

\* Python's None / time.struct_time values of the two time stamps
None == "None"

Min(a, b) == IF a < b THEN a ELSE b

\* The value a Python `==` compares: the content behind the references.
RECURSIVE Val(_, _)
Val(h, v) ==
    IF v.ref
    THEN [list |-> TRUE, s |-> "",
          items |-> [i \in 1..Len(h[v.a]) |-> Val(h, h[v.a][i])]]
    ELSE [list |-> FALSE, s |-> v.s, items |-> <<>>]

\* One entry of a mapping descriptor: the list of positions of one control.
\* BareInt(n) is the malformed entry that is a bare integer instead of a list.
PosList(ps) == [isList |-> TRUE, items |-> ps]
BareInt(n) == [isList |-> FALSE, items |-> <<n>>]

(***************************************************************************)
(* structural_conversions._nested_list_shallow_copy: a new outer list      *)
(* whose list-valued entries are fresh copies, every other entry shared.   *)
(***************************************************************************)
RECURSIVE CopyEntries(_, _, _)
CopyEntries(h, l, n) ==
    IF n > Len(l)
    THEN [heap |-> h, items |-> <<>>]
    ELSE LET e == l[n]
             h1 == IF e.ref THEN Append(h, h[e.a]) ELSE h
             e1 == IF e.ref THEN Ref(Len(h1)) ELSE e
             rest == CopyEntries(h1, l, n + 1)
         IN [heap |-> rest.heap, items |-> <<e1>> \o rest.items]

_nested_list_shallow_copy(h, l) ==
    LET c == CopyEntries(h, h[l], 1)
    IN [heap |-> Append(c.heap, c.items), addr |-> Len(c.heap) + 1]

(***************************************************************************)
(* _plug_in_optimized_controls.                                            *)
(***************************************************************************)
\* Python's list index: a negative index counts from the end of the list.
Index(i, n) == IF i < 0 THEN i + n ELSE i

\* Mutant of SetControl: writes slot 0, the operator, instead of slot 1.
SetControlSlot0(h, H, i, control) ==
    IF Index(i, Len(h[H])) < 0 \/ Index(i, Len(h[H])) >= Len(h[H])
    THEN [heap |-> h, err |-> "IndexError"]
    ELSE LET e == h[H][Index(i, Len(h[H])) + 1]
         IN IF ~e.ref
            THEN [heap |-> h, err |-> "TypeError"]
            ELSE IF Len(h[e.a]) < 2
                 THEN [heap |-> h, err |-> "IndexError"]
                 ELSE [heap |-> [h EXCEPT ![e.a][1] = control], err |-> "none"]

\* H[i][1] = control, with the errors Python raises: H[i] out of range, an
\* operator entry that takes no item assignment, a list too short for slot 1.
SetControl(h, H, i, control) ==
    IF Index(i, Len(h[H])) < 0 \/ Index(i, Len(h[H])) >= Len(h[H])
    THEN [heap |-> h, err |-> "IndexError"]
    ELSE LET e == h[H][Index(i, Len(h[H])) + 1]
         IN IF ~e.ref
            THEN [heap |-> h, err |-> "TypeError"]
            ELSE IF Len(h[e.a]) < 2
                 THEN [heap |-> h, err |-> "IndexError"]
                 ELSE [heap |-> [h EXCEPT ![e.a][2] = control], err |-> "none"]

\* Mutant of WritePositions: leaves the loop after the first position.
WritePositionsFirstOnly(h, H, control, ps, n) ==
    IF n > Len(ps)
    THEN [heap |-> h, err |-> "none"]
    ELSE SetControl(h, H, ps[n], control)

\* for i in control_mapping: H[i][1] = control   (from the n-th position on)
RECURSIVE WritePositions(_, _, _, _, _)
WritePositions(h, H, control, ps, n) ==
    IF n > Len(ps)
    THEN [heap |-> h, err |-> "none"]
    ELSE LET w == SetControl(h, H, ps[n], control)
         IN IF w.err # "none"
            THEN w
            ELSE WritePositions(w.heap, H, control, ps, n + 1)

\* Mutant of WriteControls: walks the zipped pairs from the last to the first.
RECURSIVE WriteControlsDescending(_, _, _, _, _)
WriteControlsDescending(h, H, controls, mapping, k) ==
    IF k > Min(Len(controls), Len(mapping))
    THEN [heap |-> h, err |-> "none"]
    ELSE LET j == Min(Len(controls), Len(mapping)) - k + 1
         IN IF ~mapping[j].isList
            THEN [heap |-> h, err |-> "TypeError"]
            ELSE LET w == WritePositions(h, H, controls[j], mapping[j].items, 1)
                 IN IF w.err # "none"
                    THEN w
                    ELSE WriteControlsDescending(w.heap, H, controls, mapping, k + 1)

\* for (control, control_mapping) in zip(controls, mapping): ...
\* zip stops at the shorter of the two; iterating a bare integer raises.
RECURSIVE WriteControls(_, _, _, _, _)
WriteControls(h, H, controls, mapping, k) ==
    IF k > Min(Len(controls), Len(mapping))
    THEN [heap |-> h, err |-> "none"]
    ELSE IF ~mapping[k].isList
         THEN [heap |-> h, err |-> "TypeError"]
         ELSE LET w == WritePositions(h, H, controls[k], mapping[k].items, 1)
              IN IF w.err # "none"
                 THEN w
                 ELSE WriteControls(w.heap, H, controls, mapping, k + 1)

\* Mutant of _plug_in_optimized_controls: writes into H itself, without the copy.
plug_in_without_copy(h, H, controls, mapping) ==
    LET w == WriteControls(h, H, controls, mapping, 1)
    IN [heap |-> w.heap,
        H |-> IF w.err = "none" THEN H ELSE 0,
        err |-> w.err]

\* Returns the heap after the call, the address returned (0 when it raised)
\* and the error raised ("none" when it returned).
_plug_in_optimized_controls(h, H, controls, mapping) ==
    LET c == _nested_list_shallow_copy(h, H)
        w == WriteControls(c.heap, c.addr, controls, mapping, 1)
    IN [heap |-> w.heap,
        H |-> IF w.err = "none" THEN c.addr ELSE 0,
        err |-> w.err]

(***************************************************************************)
(* Inputs: nested structures, controls lists and mapping descriptors.      *)
(***************************************************************************)
GuessNames == <<"guess0", "guess1", "guess2", "guess3">>
OptNames == <<"opt0", "opt1", "opt2", "opt3">>

\* The first n guess / optimized controls, in flat-list order.
GuessControls(n) == [k \in 1..n |-> Atom(GuessNames[k])]
OptControls(n) == [k \in 1..n |-> Atom(OptNames[k])]

\* The shape of a structure: per entry, a fixed operator or an
\* [operator, control] pair.
Shapes == UNION {[1..n -> {"op", "pair"}] : n \in 0..MaxLen}

PairsBefore(shape, n) == Cardinality({m \in 1..(n - 1) : shape[m] = "pair"})

\* Allocates a structure of the given shape: the pairs first, then the outer
\* list.  The k-th pair holds the k-th guess control.
RECURSIVE BuildEntries(_, _, _, _)
BuildEntries(h, shape, opname, n) ==
    IF n > Len(shape)
    THEN [heap |-> h, items |-> <<>>]
    ELSE LET pair == <<Atom(opname), Atom(GuessNames[PairsBefore(shape, n) + 1])>>
             h1 == IF shape[n] = "pair" THEN Append(h, pair) ELSE h
             e1 == IF shape[n] = "pair" THEN Ref(Len(h1)) ELSE Atom("Hfixed")
             rest == BuildEntries(h1, shape, opname, n + 1)
         IN [heap |-> rest.heap, items |-> <<e1>> \o rest.items]

Build(h, shape, opname) ==
    LET b == BuildEntries(h, shape, opname, 1)
    IN [heap |-> Append(b.heap, b.items), addr |-> Len(b.heap) + 1]

\* The well-formed descriptors of n entries that list at most b positions in
\* all, each position in 0..MaxLen (MaxLen itself is out of every range).
\* Positions are the indices that enumerating a structure yields, as the
\* mapping extraction stores them: never negative.
RECURSIVE Descriptors(_, _)
Descriptors(n, b) ==
    IF n = 0
    THEN {<<>>}
    ELSE UNION {{<<PosList(ps)>> \o rest :
                    ps \in [1..t -> 0..MaxLen], rest \in Descriptors(n - 1, b - t)} :
                t \in 0..b}

NoArgs == [H |-> 0, controls |-> <<>>, mapping |-> <<>>]
NoStr == [start_local_time |-> "", n_objectives |-> 0, n_iters |-> 0,
          end_local_time |-> ""]
NoRet == [op |-> "none", err |-> "none", H |-> 0, objectives |-> <<>>, str |-> NoStr]

(***************************************************************************)
(* The substitution routine called on its own: Init draws a structure S, a *)
(* controls list C and a descriptor M; PlugIn calls the routine on them.   *)
(***************************************************************************)
InitPlug ==
    /\ \E shape \in Shapes, nC \in 0..MaxControls, nM \in 0..MaxControls :
         \E M \in Descriptors(nM, MaxWrites) :
            LET b == Build(<<>>, shape, "Hop")
            IN /\ heap = b.heap
               /\ args = [H |-> b.addr, controls |-> OptControls(nC), mapping |-> M]
    /\ ret = NoRet
    /\ objectives = <<>>
    /\ guess_controls = <<>>
    /\ optimized_controls = <<>>
    /\ controls_mapping = <<>>
    /\ iters = <<>>
    /\ start_local_time = None
    /\ end_local_time = None

PlugIn ==
    /\ args.H # 0
    /\ ret.op = "none"
    /\ LET r == _plug_in_optimized_controls(heap, args.H, args.controls, args.mapping)
       IN /\ heap' = r.heap
          /\ ret' = [NoRet EXCEPT !.op = "plug_in", !.err = r.err, !.H = r.H]
    /\ UNCHANGED <<args, resultFields>>

NextPlug == PlugIn

SpecPlug == InitPlug /\ [][NextPlug]_vars

(***************************************************************************)
(* Result.optimized_objectives.                                            *)
(***************************************************************************)
\* objectives.Objective(H=, initial_state=, target_state=, c_ops=): a record
\* of the four references it is given.
Objective(H, initial_state, target_state, c_ops) ==
    [H |-> H, initial_state |-> initial_state, target_state |-> target_state,
     c_ops |-> c_ops]

\* What a loop over a list gives once its first element gave `first` (a list
\* of results and an error) and the elements after it gave `rest`.
Cons(first, rest) ==
    [heap |-> rest.heap,
     items |-> IF rest.err = "none" THEN first \o rest.items ELSE <<>>,
     err |-> rest.err]

Stopped(h, err) == [heap |-> h, items |-> <<>>, err |-> err]

\* The list comprehension over enumerate(obj.c_ops), from the n-th c_op on
\* (Python j = n - 1).  self.controls_mapping[i][j+1] is evaluated before the
\* call, and raises when the entry of objective i is too short.
RECURSIVE PlugInCOps(_, _, _, _, _)
AfterCOp(r, c_ops, controls, entry, n) ==
    IF r.err # "none"
    THEN Stopped(r.heap, r.err)
    ELSE Cons(<<r.H>>, PlugInCOps(r.heap, c_ops, controls, entry, n + 1))

\* Mutant of PlugInCOps: reads controls_mapping[i][j] instead of [i][j+1].
PlugInCOpsOffByOne(h, c_ops, controls, entry, n) ==
    IF n > Len(c_ops)
    THEN Stopped(h, "none")
    ELSE IF n > Len(entry)
         THEN Stopped(h, "IndexError")
         ELSE AfterCOp(_plug_in_optimized_controls(h, c_ops[n], controls, entry[n]),
                       c_ops, controls, entry, n)

PlugInCOps(h, c_ops, controls, entry, n) ==
    IF n > Len(c_ops)
    THEN Stopped(h, "none")
    ELSE IF n + 1 > Len(entry)
         THEN Stopped(h, "IndexError")
         ELSE AfterCOp(_plug_in_optimized_controls(h, c_ops[n], controls, entry[n + 1]),
                       c_ops, controls, entry, n)

\* The loop over enumerate(self.objectives), from the n-th objective on
\* (Python i = n - 1).  self.controls_mapping[i][0] raises when
\* controls_mapping has no entry i or the entry is empty.
RECURSIVE PlugInObjectives(_, _, _, _, _)
AfterCOps(rc, H, objs, controls, mapping, n) ==
    IF rc.err # "none"
    THEN Stopped(rc.heap, rc.err)
    ELSE Cons(<<Objective(H, objs[n].initial_state, objs[n].target_state, rc.items)>>,
              PlugInObjectives(rc.heap, objs, controls, mapping, n + 1))

AfterH(rH, objs, controls, mapping, n) ==
    IF rH.err # "none"
    THEN Stopped(rH.heap, rH.err)
    ELSE AfterCOps(PlugInCOps(rH.heap, objs[n].c_ops, controls, mapping[n], 1),
                   rH.H, objs, controls, mapping, n)

PlugInObjectives(h, objs, controls, mapping, n) ==
    IF n > Len(objs)
    THEN Stopped(h, "none")
    ELSE IF n > Len(mapping) \/ Len(mapping[n]) = 0
         THEN Stopped(h, "IndexError")
         ELSE AfterH(_plug_in_optimized_controls(h, objs[n].H, controls, mapping[n][1]),
                     objs, controls, mapping, n)

\* Returns the heap after the read, the list returned (empty when it raised)
\* and the error raised ("none" when it returned).
optimized_objectives(h, objs, controls, mapping) ==
    PlugInObjectives(h, objs, controls, mapping, 1)

(***************************************************************************)
(* Result.__str__ and the two time-stamp properties.                       *)
(***************************************************************************)
\* time.strftime(time_fmt, t) of the two time stamps the model uses
Strftime(t) ==
    IF t = "struct_time_start" THEN "2018-11-05 10:00:00" ELSE "2018-11-05 10:30:00"

start_local_time_str(t) == IF t # None THEN Strftime(t) ELSE "n/a"
end_local_time_str(t) == IF t # None THEN Strftime(t) ELSE "n/a"

\* Mutant of str: counts iteration 0 as an iteration.
strCountingGuess(objs, its, t0, t1) ==
    [start_local_time |-> start_local_time_str(t0),
     n_objectives |-> Len(objs),
     n_iters |-> Len(its),
     end_local_time |-> end_local_time_str(t1)]

\* The four values __str__ formats into its text.
__str__(objs, its, t0, t1) ==
    [start_local_time |-> start_local_time_str(t0),
     n_objectives |-> Len(objs),
     n_iters |-> Len(its) - 1,
     end_local_time |-> end_local_time_str(t1)]

(***************************************************************************)
(* The life of a Result: constructed empty, filled in by the optimization  *)
(* driver at the start, one record appended per iteration, finalized once, *)
(* and read (rendered, or its optimized objectives rebuilt) at any time.   *)
(***************************************************************************)
InitialStates == <<"psi0", "psi1", "psi2", "psi3">>
TargetStates == <<"psi_tgt0", "psi_tgt1", "psi_tgt2", "psi_tgt3">>

\* What the driver may store for one objective: the shape of its H, the
\* shapes of its c_ops, and its entry of controls_mapping (the descriptor of
\* H, then one descriptor per c_op).  Position 0 of the first H is a fixed
\* operator, position 1 its pair, position 2 out of range.
ObjectiveCases ==
    << \* H = [Hfixed, [Hop, guess0]], no c_ops
       [H |-> <<"op", "pair">>, c_ops |-> <<>>, entry |-> << <<PosList(<<1>>)>> >>],
       [H |-> <<"op", "pair">>, c_ops |-> <<>>, entry |-> << <<PosList(<<1>>), PosList(<<>>)>> >>],
       [H |-> <<"op", "pair">>, c_ops |-> <<>>, entry |-> << <<PosList(<<>>), PosList(<<1>>)>> >>],
       [H |-> <<"op", "pair">>, c_ops |-> <<>>, entry |-> << <<PosList(<<1>>), PosList(<<1>>)>> >>],
       [H |-> <<"op", "pair">>, c_ops |-> <<>>, entry |-> << <<PosList(<<0>>)>> >>],
       [H |-> <<"op", "pair">>, c_ops |-> <<>>, entry |-> << <<PosList(<<2>>)>> >>],
       [H |-> <<"op", "pair">>, c_ops |-> <<>>, entry |-> << <<BareInt(0)>>, <<>> >>],
       [H |-> <<"op", "pair">>, c_ops |-> <<>>, entry |-> <<>>],
       [H |-> <<"op", "pair">>, c_ops |-> <<>>, entry |-> << <<>> >>],
       \* H = [[Hop, guess0], [Hop, guess1]], c_ops = [[[Lop, guess0]]]
       [H |-> <<"pair", "pair">>, c_ops |-> << <<"pair">> >>,
        entry |-> << <<PosList(<<0>>), PosList(<<1>>)>>, <<PosList(<<0>>), PosList(<<>>)>> >>],
       [H |-> <<"pair", "pair">>, c_ops |-> << <<"pair">> >>,
        entry |-> << <<PosList(<<0, 1>>)>>, <<PosList(<<0>>)>> >>],
       [H |-> <<"pair", "pair">>, c_ops |-> << <<"pair">> >>,
        entry |-> << <<PosList(<<1>>), PosList(<<0>>)>>, <<PosList(<<>>), PosList(<<0>>)>> >>],
       [H |-> <<"pair", "pair">>, c_ops |-> << <<"pair">> >>,
        entry |-> << <<PosList(<<0>>), PosList(<<1>>)>> >>],
       [H |-> <<"pair", "pair">>, c_ops |-> << <<"pair">> >>,
        entry |-> << <<PosList(<<0>>), PosList(<<1>>)>>, <<PosList(<<1>>), PosList(<<>>)>> >>],
       [H |-> <<"pair", "pair">>, c_ops |-> << <<"pair">> >>,
        entry |-> << <<PosList(<<0>>), PosList(<<2>>)>>, <<PosList(<<0>>), PosList(<<>>)>> >>],
       [H |-> <<"pair", "pair">>, c_ops |-> << <<"pair">> >>,
        entry |-> << <<PosList(<<>>), PosList(<<>>)>>, <<PosList(<<>>), PosList(<<>>)>> >>] >>

RECURSIVE BuildCOps(_, _, _)
BuildCOps(h, shapes, n) ==
    IF n > Len(shapes)
    THEN [heap |-> h, c_ops |-> <<>>]
    ELSE LET b == Build(h, shapes[n], "Lop")
             rest == BuildCOps(b.heap, shapes, n + 1)
         IN [heap |-> rest.heap, c_ops |-> <<b.addr>> \o rest.c_ops]

\* Allocates the objectives the driver stores, the n-th one of case choice[n].
RECURSIVE BuildObjectives(_, _, _)
BuildObjectives(h, choice, n) ==
    IF n > Len(choice)
    THEN [heap |-> h, objectives |-> <<>>]
    ELSE LET case == ObjectiveCases[choice[n]]
             bH == Build(h, case.H, "Hop")
             bc == BuildCOps(bH.heap, case.c_ops, 1)
             obj == Objective(bH.addr, Atom(InitialStates[n]),
                              Atom(TargetStates[n]), bc.c_ops)
             rest == BuildObjectives(bc.heap, choice, n + 1)
         IN [heap |-> rest.heap, objectives |-> <<obj>> \o rest.objectives]

\* The lists a Result refers to: every list allocated for its objectives.
\* What an earlier read returned is dropped by the time of the next read.
Live(h, objs) ==
    LET top == {objs[n].H : n \in 1..Len(objs)}
               \cup UNION {{objs[n].c_ops[j] : j \in 1..Len(objs[n].c_ops)} :
                           n \in 1..Len(objs)}
        last == IF top = {} THEN 0 ELSE CHOOSE a \in top : \A b \in top : b <= a
    IN SubSeq(h, 1, last)

\* Result.__init__
Init ==
    /\ heap = <<>>
    /\ objectives = <<>>
    /\ guess_controls = <<>>
    /\ optimized_controls = <<>>
    /\ controls_mapping = <<>>
    /\ iters = <<>>
    /\ start_local_time = None
    /\ end_local_time = None
    /\ args = NoArgs
    /\ ret = NoRet

\* The driver stores the objectives, the guess controls and the mapping, and
\* stamps the start.  With `short` the mapping lacks the last objective's entry.
Start ==
    /\ start_local_time = None
    /\ \E n \in 0..MaxObjectives, g \in 1..MaxControls, short \in BOOLEAN :
          \E choice \in [1..n -> 1..Len(ObjectiveCases)] :
             LET b == BuildObjectives(<<>>, choice, 1)
                 full == [i \in 1..n |-> ObjectiveCases[choice[i]].entry]
             IN /\ short => n > 0
                /\ heap' = b.heap
                /\ objectives' = b.objectives
                /\ guess_controls' = GuessControls(g)
                /\ controls_mapping' = IF short THEN SubSeq(full, 1, n - 1) ELSE full
    /\ start_local_time' = "struct_time_start"
    /\ ret' = NoRet
    /\ UNCHANGED <<optimized_controls, iters, end_local_time, args>>

\* The driver records one iteration: iteration numbers start at 0.
AppendIter ==
    /\ start_local_time # None
    /\ end_local_time = None
    /\ Len(iters) < MaxIters
    /\ iters' = Append(iters, Len(iters))
    /\ ret' = NoRet
    /\ UNCHANGED <<heap, objectives, guess_controls, optimized_controls,
                   controls_mapping, start_local_time, end_local_time, args>>

\* The driver stores the optimized controls, in the order of the guess
\* controls, and stamps the end.
Finish ==
    /\ start_local_time # None
    /\ end_local_time = None
    /\ Len(iters) > 0
    /\ optimized_controls' = OptControls(Len(guess_controls))
    /\ end_local_time' = "struct_time_end"
    /\ ret' = NoRet
    /\ UNCHANGED <<heap, objectives, guess_controls, controls_mapping, iters,
                   start_local_time, args>>

\* Reading Result.optimized_objectives.
ReadOptimizedObjectives ==
    /\ LET r == optimized_objectives(Live(heap, objectives), objectives,
                                     optimized_controls, controls_mapping)
       IN /\ heap' = r.heap
          /\ ret' = [NoRet EXCEPT !.op = "optimized_objectives", !.err = r.err,
                                  !.objectives = r.items]
    /\ UNCHANGED <<resultFields, args>>

\* str(result) / repr(result): Result.__str__, and __repr__ through it
Render ==
    /\ ret' = [NoRet EXCEPT !.op = "str",
                            !.str = __str__(objectives, iters, start_local_time,
                                        end_local_time)]
    /\ UNCHANGED <<heap, resultFields, args>>

Next == Start \/ AppendIter \/ Finish \/ ReadOptimizedObjectives \/ Render

Spec == Init /\ [][Next]_vars

(***************************************************************************)
(* Vocabulary of the claims about a direct call plug_in(S, C, M).          *)
(***************************************************************************)
S == args.H
C == args.controls
M == args.mapping
Returned == ret.op = "plug_in" /\ ret.err = "none"

\* the positions M lists for control k, and for any control
Listed(k) == {M[k].items[j] : j \in 1..Len(M[k].items)}
AllListed == UNION {Listed(k) : k \in 1..Len(M)}

\* p is a valid index of an [operator, control] pair of S
IsPairOf(p) == p < Len(heap[S]) /\ heap[S][p + 1].ref

\* slot j of the pair at position p of the list l (Python l[p][j])
Slot(l, p, j) == heap[heap[l][p + 1].a][j + 1]

ValidShape ==
    /\ Len(M) = Len(C)
    /\ \A p \in AllListed : IsPairOf(p)

\* no position is listed for two different controls
Disjoint ==
    \A k1 \in 1..Len(M), k2 \in 1..Len(M) :
        k1 # k2 => Listed(k1) \cap Listed(k2) = {}

\* C1 as stated: for every S, C, M of valid shape the call returns S' with
\* S'[p][1] == C[k] for every control k and every position p in M[k].
C1_Original ==
    (ret.op = "plug_in" /\ ValidShape) =>
        /\ ret.err = "none"
        /\ \A k \in 1..Len(M) : \A p \in Listed(k) : Slot(ret.H, p, 1) = C[k]

\* C1, amended: for every S, C, M of valid shape in which no position is listed
\* for two different controls, the call returns S' with S'[p][1] == C[k] for
\* every control k and every position p in M[k], also when one control is
\* listed at two or more positions.
C1_Substituted ==
    (ret.op = "plug_in" /\ ValidShape /\ Disjoint) =>
        /\ ret.err = "none"
        /\ \A k \in 1..Len(M) : \A p \in Listed(k) : Slot(ret.H, p, 1) = C[k]

\* a returned call in which one control was written at two distinct positions
C1_Witness ==
    /\ Returned /\ ValidShape /\ Disjoint
    /\ \E k \in 1..Len(M) : Cardinality(Listed(k)) >= 2

\* C3 as stated: a descriptor whose length differs from the number of controls
\* makes the call fail with an error instead of returning a structure.
C3_LengthMismatchRaises ==
    (ret.op = "plug_in" /\ Len(M) # Len(C)) => ret.err # "none"

\* C10: in a call of otherwise valid shape, a position listed for several
\* controls does not make the call fail, and it ends up holding the control
\* with the highest flat-list index among those that list it.
C10_LastControlWins ==
    (ret.op = "plug_in" /\ ValidShape) =>
        /\ ret.err = "none"
        /\ \A p \in AllListed :
              \A k2 \in 1..Len(M) :
                 (p \in Listed(k2) /\ \A k \in (k2 + 1)..Len(M) : p \notin Listed(k))
                    => Slot(ret.H, p, 1) = C[k2]

\* a returned call in which some position was listed for two different controls
C10_Witness ==
    /\ Returned /\ ValidShape
    /\ \E k1 \in 1..Len(M), k2 \in 1..Len(M) :
          k1 < k2 /\ Listed(k1) \cap Listed(k2) # {}

\* the step of a direct call, and of one that returned
PlugInStep == ret.op = "none" /\ ret'.op = "plug_in"
PlugInReturns == PlugInStep /\ ret'.err = "none"

\* the addresses of the pairs of the list l in heap h
PairsOf(h, l) == {h[l][n].a : n \in {m \in 1..Len(h[l]) : h[l][m].ref}}

C6_Step ==
    PlugInReturns =>
        LET S1 == ret'.H
        IN /\ Len(heap'[S1]) = Len(heap[S])
           /\ \A p \in 0..(Len(heap[S]) - 1) :
                 /\ p \notin AllListed =>
                       Val(heap', heap'[S1][p + 1]) = Val(heap, heap[S][p + 1])
                 /\ (p \in AllListed /\ heap[S][p + 1].ref) =>
                       /\ heap'[S1][p + 1].ref
                       /\ heap'[heap'[S1][p + 1].a][1] = heap[heap[S][p + 1].a][1]
           /\ AllListed = {} => Val(heap', Ref(S1)) = Val(heap, Ref(S))
           /\ S1 # S
           /\ PairsOf(heap', S1) \cap PairsOf(heap, S) = {}

\* C6: a call that returns S' changes only what the mapping targets: S' is as
\* long as S, an entry at a position no M[k] lists is value-equal to S's, a
\* targeted pair keeps its operator slot, S' is value-equal to S when nothing
\* is listed, and neither S' nor any of its pairs is the same object as S or
\* one of S's pairs.
C6_OnlyTargetsChange == [][C6_Step]_vars

\* a returned call with nothing listed on a structure that has a pair, and so
\* a copy that is value-equal to S
C6_Witness ==
    /\ Returned /\ AllListed = {}
    /\ PairsOf(heap, S) # {}
    /\ Val(heap, Ref(ret.H)) = Val(heap, Ref(S))

\* Reorderings of the inputs of a call.
Perms(n) == {f \in [1..n -> 1..n] : \A i \in 1..n, j \in 1..n : f[i] = f[j] => i = j}
Zipped == Min(Len(C), Len(M))
PermuteHead(seq, f) == [k \in 1..Len(seq) |-> IF k <= Zipped THEN seq[f[k]] ELSE seq[k]]
InsertAt(seq, i, x) == SubSeq(seq, 1, i) \o <<x>> \o SubSeq(seq, i + 1, Len(seq))

\* the (control, descriptor entry) pairs permuted together
PairVariants == {<<PermuteHead(C, f), PermuteHead(M, f)>> : f \in Perms(Zipped)}
\* the positions of one M[k] permuted
PositionVariants ==
    UNION {{<<C, [M EXCEPT ![k] = PosList([j \in 1..Len(M[k].items) |-> M[k].items[f[j]]])]>> :
               f \in Perms(Len(M[k].items))} : k \in 1..Len(M)}
\* one position of one M[k] listed once more, anywhere in M[k]
RepeatVariants ==
    UNION {{<<C, [M EXCEPT ![k] = PosList(InsertAt(M[k].items, i, M[k].items[j]))]>> :
               i \in 0..Len(M[k].items), j \in 1..Len(M[k].items)} : k \in 1..Len(M)}

C9_Step ==
    (PlugInStep /\ Disjoint) =>
        \A v \in PairVariants \cup PositionVariants \cup RepeatVariants :
            LET r == _plug_in_optimized_controls(heap, S, v[1], v[2])
            IN /\ (r.err = "none") = (ret'.err = "none")
               /\ r.err = "none" =>
                     Val(r.heap, Ref(r.H)) = Val(heap', Ref(ret'.H))

\* C9: when no position is listed for two different controls, the outcome of
\* a call does not depend on the order of the (control, descriptor entry)
\* pairs, on the order of the positions inside one M[k], or on a position of
\* M[k] being listed twice: each such variant returns exactly when the call
\* does, and then a value-equal S'.
C9_OrderIndependent == [][C9_Step]_vars

\* a returned call in which two controls both write, at positions of their own
C9_Witness ==
    /\ Returned /\ Disjoint /\ ValidShape
    /\ Len(M) >= 2
    /\ \A k \in 1..Len(M) : Listed(k) # {}

(***************************************************************************)
(* Vocabulary of the claims about a Result.                                *)
(***************************************************************************)
HasRead == ret.op = "optimized_objectives"
ReadStep == ret'.op = "optimized_objectives"

PositionsOf(e) == {e.items[j] : j \in 1..Len(e.items)}

\* the structure the t-th descriptor of objective i's entry describes: H for
\* t = 1, c_op t - 1 after it, no structure (0) beyond the c_ops
Described(i, t) ==
    IF t = 1 THEN objectives[i].H
    ELSE IF t - 1 <= Len(objectives[i].c_ops) THEN objectives[i].c_ops[t - 1]
    ELSE 0

\* descriptor d fits the structure l and the optimized controls
DescriptorFits(d, l) ==
    /\ Len(d) = Len(optimized_controls)
    /\ \A k \in 1..Len(d) :
          /\ d[k].isList
          /\ \A p \in PositionsOf(d[k]) : p < Len(heap[l]) /\ heap[l][p + 1].ref

\* the shape invariant of controls_mapping: one entry per objective, in each
\* entry one descriptor for H and one per c_op, each descriptor with one list
\* of valid pair positions per optimized control
ShapeInvariant ==
    /\ Len(controls_mapping) = Len(objectives)
    /\ \A i \in 1..Len(objectives) :
          /\ Len(controls_mapping[i]) = 1 + Len(objectives[i].c_ops)
          /\ \A t \in 1..Len(controls_mapping[i]) :
                DescriptorFits(controls_mapping[i][t], Described(i, t))

\* The value of l with the controls substituted as d says: the pair at a
\* position some control lists keeps its operator and holds the control of
\* the highest index that lists it; every other entry is as it was.
SubstitutedVal(l, d) ==
    [list |-> TRUE, s |-> "",
     items |-> [n \in 1..Len(heap[l]) |->
        LET ks == {k \in 1..Len(d) : (n - 1) \in PositionsOf(d[k])}
            top == CHOOSE k \in ks : \A k2 \in ks : k2 <= k
        IN IF ks = {}
           THEN Val(heap, heap[l][n])
           ELSE [list |-> TRUE, s |-> "",
                 items |-> <<Val(heap, heap[heap[l][n].a][1]),
                             Val(heap, optimized_controls[top])>>]]]

\* the live lists of the Result are, after the step, what they were before it
LiveUnchanged ==
    /\ Len(heap') >= Len(Live(heap, objectives))
    /\ \A a \in 1..Len(Live(heap, objectives)) : heap'[a] = heap[a]

C2_Step ==
    ReadStep => (LiveUnchanged /\ UNCHANGED resultFields)

\* C2: reading optimized_objectives, whether it returns or raises part-way,
\* leaves objectives, every H and c_op with each nested pair, guess_controls,
\* optimized_controls and controls_mapping as they were: every write goes to
\* a copy.
C2_ReadLeavesResultUnchanged == [][C2_Step]_vars

\* a read that raised after it had written an optimized control into a copy
C2_Witness ==
    /\ HasRead /\ ret.err # "none"
    /\ \E a \in (Len(Live(heap, objectives)) + 1)..Len(heap) :
          \E n \in 1..Len(heap[a]) :
             \E k \in 1..Len(optimized_controls) : heap[a][n] = optimized_controls[k]

\* controls_mapping is index-inconsistent with the objectives
ListsPositionBeyond ==
    \E i \in 1..Min(Len(objectives), Len(controls_mapping)) :
       \E t \in 1..Len(controls_mapping[i]) :
          /\ Described(i, t) # 0
          /\ \E k \in 1..Len(controls_mapping[i][t]) :
                \E p \in PositionsOf(controls_mapping[i][t][k]) :
                   p >= Len(heap[Described(i, t)])
FewerEntries == Len(controls_mapping) < Len(objectives)
ShortEntry ==
    \E i \in 1..Min(Len(objectives), Len(controls_mapping)) :
       Len(controls_mapping[i]) < 1 + Len(objectives[i].c_ops)

\* C4 as stated, for a finalized Result and whatever the kind of the error:
\* when a descriptor lists a position beyond its structure, or
\* controls_mapping has fewer entries than objectives, or an entry has fewer
\* descriptors than 1 + len(c_ops), reading optimized_objectives fails and
\* returns no list.
C4_InconsistentMappingRaises ==
    (HasRead /\ end_local_time # None
        /\ (ListsPositionBeyond \/ FewerEntries \/ ShortEntry)) =>
            ret.err # "none"

\* The scenario of C5: one objective with H = [Hfixed, [Hop, "guess0"]] and no
\* c_ops, guess_controls = ["guess0"], optimized_controls = ["opt0"], and the
\* given controls_mapping, after optimized_objectives was read.
C5_Scenario(mapping) ==
    /\ HasRead
    /\ Len(objectives) = 1
    /\ objectives[1].c_ops = <<>>
    /\ guess_controls = <<Atom("guess0")>>
    /\ optimized_controls = <<Atom("opt0")>>
    /\ controls_mapping = mapping

C5_H == [list |-> TRUE, s |-> "",
         items |-> << [list |-> FALSE, s |-> "Hfixed", items |-> <<>>],
                      [list |-> TRUE, s |-> "",
                       items |-> << [list |-> FALSE, s |-> "Hop", items |-> <<>>],
                                    [list |-> FALSE, s |-> "guess0", items |-> <<>>] >>] >>]
C5_OptimizedH == [C5_H EXCEPT !.items[2].items[2].s = "opt0"]

C5_Outcome ==
    /\ ret.err = "none"
    /\ Len(ret.objectives) = 1
    /\ Val(heap, Ref(ret.objectives[1].H)) = C5_OptimizedH
    /\ Val(heap, Ref(objectives[1].H)) = C5_H

\* C5 as stated: with controls_mapping = [[[0], []]] the read yields
\* H == [Hfixed, [Hop, "opt0"]] and leaves obj.H unchanged.
C5_Original ==
    (C5_Scenario(<< << <<BareInt(0)>>, <<>> >> >>)
        /\ Val(heap, Ref(objectives[1].H)) = C5_H) => C5_Outcome

\* C5, amended: with controls_mapping = [[[[1]]]] (the descriptor of H lists
\* position 1, the pair, for control 0) the read yields
\* H == [Hfixed, [Hop, "opt0"]] and leaves obj.H unchanged.
C5_ScenarioWithPairPosition ==
    C5_Scenario(<< << <<PosList(<<1>>)>> >> >>) => C5_Outcome

\* the amended scenario, read
C5_Witness ==
    /\ C5_Scenario(<< << <<PosList(<<1>>)>> >> >>)
    /\ ret.err = "none"

\* C7: with a controls_mapping that satisfies the shape invariant the read
\* returns len(objectives) objectives in the same order, the i-th with H the
\* substitution of objectives[i].H by controls_mapping[i][0], with as many
\* c_ops as objectives[i] has, c_op j the substitution of objectives[i].c_ops[j]
\* by controls_mapping[i][j+1], and with the initial_state and target_state of
\* objectives[i].
C7_OptimizedObjectives ==
    (HasRead /\ ShapeInvariant) =>
        /\ ret.err = "none"
        /\ Len(ret.objectives) = Len(objectives)
        /\ \A i \in 1..Len(objectives) :
              LET new == ret.objectives[i]
                  old == objectives[i]
              IN /\ Val(heap, Ref(new.H)) = SubstitutedVal(old.H, controls_mapping[i][1])
                 /\ Len(new.c_ops) = Len(old.c_ops)
                 /\ \A j \in 1..Len(old.c_ops) :
                       Val(heap, Ref(new.c_ops[j])) =
                          SubstitutedVal(old.c_ops[j], controls_mapping[i][j + 1])
                 /\ new.initial_state = old.initial_state
                 /\ new.target_state = old.target_state

\* a read of two objectives, one of them with a c_op, in which both optimized
\* controls were written
C7_Witness ==
    /\ HasRead /\ ShapeInvariant /\ ret.err = "none"
    /\ Len(objectives) = 2
    /\ \E i \in 1..2 : Len(objectives[i].c_ops) > 0
    /\ Len(optimized_controls) = 2
    /\ \E i \in 1..2 : \A k \in 1..2 : PositionsOf(controls_mapping[i][1][k]) # {}

====
